---- MODULE Spec2Model ----
(***************************************************************************)
(* Path filling of a clique-graph spanning tree (pairwise and structural)  *)
(* and the partial k-tree generator of treewidth-heuristic-clique-graph.   *)
(*                                                                         *)
(* Spec    : both path-filling strategies run on the same pre-filling tree *)
(*           (as the benchmark driver does with two pipeline calls).       *)
(* SpecGen : generate_partial_k_tree / ..._with_guaranteed_treewidth.      *)
(* SpecPred: a BTreeSet<Predecessor> under insert, pop_last and cmp.       *)
(* SpecOrder: both strategies with the 2-combinations, the roles within a  *)
(*           pair, the keys and the root taken in any order.               *)
(***************************************************************************)
EXTENDS Integers, Sequences, FiniteSets, TLC

\* ---------------------------------------------------------------- bounds
MaxNodes == 4
NumVertices == 2
MaxK == 2
MaxN == 3
\* Predecessor records tried: node ids 0..MaxNodeIndex, levels 0..MaxLevel,
\* in a BTreeSet of at most MaxWalkers records
MaxNodeIndex == 2
MaxLevel == 2
MaxWalkers == 2
\* the values of p tried
Percents == {0, 50, 67, 100, 150}

\* NodeIndex values of the T-nodes of a tree with nc nodes (petgraph: 0..n-1)
NodeIndices(nc) == 0..(nc - 1)
\* NodeIndex values of the vertices of G that bags may hold
Vertices == 0..(NumVertices - 1)

VARIABLES
    \* ---- path filling
    node_count,             \* graph.node_count()
    tree,                   \* edge set of T, each edge a set {a, b}
    before_filling,         \* clique_graph_before_filling_up: node -> bag
    clique_graph_alt,       \* bags under fill_bags_along_paths
    clique_graph,           \* bags under fill_bags_along_paths_using_structure
    clique_graph_map,       \* G-vertex -> set of T-nodes whose bag holds it
    pc,                     \* position in the run
    pair_idx,               \* position in the 2-combinations
    root,
    tree_predecessor_map,   \* node -> <<parent, level of parent>>
    stack,                  \* setup_predecessors' stack of <<node, level>>
    keys_left,              \* keys of clique_graph_map not yet visited
    vertex_in_initial_graph,
    predecessors,           \* the BTreeSet<Predecessor> of one walk
    pairwise_result,        \* "none" | "returned" | "panicked"
    structure_result,       \* "none" | "returned" | "panicked"
    panic_msg,
    \* ---- partial k-tree generator
    k, n, p,                \* the arguments
    entry,                  \* "partial" | "guaranteed": the function called
    overflow_checks,        \* TRUE: arithmetic overflow panics (debug build)
    gen_pc,
    graph_nodes,            \* graph.node_count()
    graph_edges,            \* edge list; the edge of id i is graph_edges[i + 1]
    to_remove,              \* edge ids still to be passed to remove_edge
    gen_result,             \* "none" | "some" | "absent" | "panicked"
    discarded,              \* "Graph was just discarded" has been printed
    \* ---- the 2-combinations taken in any order
    pairs_left,             \* 2-combinations not yet visited
    \* ---- Predecessor records in a BTreeSet
    ord_pc,                 \* last operation: "idle" | "new" | "insert" | "pop_last" | "cmp"
    predecessor_one,        \* the record inserted, or self of cmp
    predecessor_two,        \* other of cmp
    ordering,               \* results of cmp, partial_cmp and ==
    last_popped             \* Option returned by pop_last: {} or {record}

fill_vars == <<node_count, tree, before_filling, clique_graph_alt, clique_graph,
               clique_graph_map, pc, pair_idx, root, tree_predecessor_map, stack,
               keys_left, vertex_in_initial_graph, predecessors,
               pairwise_result, structure_result, panic_msg>>

gen_vars == <<k, n, p, entry, overflow_checks, gen_pc, graph_nodes, graph_edges,
              to_remove, gen_result, discarded>>

ord_vars == <<ord_pc, predecessor_one, predecessor_two, ordering, last_popped>>

vars == <<fill_vars, gen_vars, pairs_left, ord_vars>>

\* ------------------------------------------------------- graph container
\* graph.neighbors(v) as a set
Neighbors(E, v) == {w \in UNION E : {v, w} \in E /\ w # v}

RECURSIVE ReachFrom(_, _)
ReachFrom(E, S) ==
    LET S2 == S \cup UNION {Neighbors(E, v) : v \in S}
    IN  IF S2 = S THEN S ELSE ReachFrom(E, S2)

Components(nc, E) == {ReachFrom(E, {v}) : v \in NodeIndices(nc)}

AllEdges(nc) == {{a, b} : a, b \in NodeIndices(nc)} \ {{a} : a \in NodeIndices(nc)}

\* a spanning forest as the minimum-spanning-tree step hands it over
IsForest(nc, E) == Cardinality(E) + Cardinality(Components(nc, E)) = nc

IsTree(nc, E) == nc >= 1 /\ IsForest(nc, E) /\ Cardinality(Components(nc, E)) = 1

\* a set in ascending order, as a sequence
RECURSIVE SortedSeq(_)
SortedSeq(S) ==
    IF S = {} THEN <<>>
    ELSE LET m == CHOOSE x \in S : \A y \in S : x <= y
         IN  <<m>> \o SortedSeq(S \ {m})

\* the order in which graph.neighbors(v) yields: petgraph walks the edge list of
\* v from the edge added last; edges are taken as added in ascending order of
\* the other endpoint, so neighbours come in descending order
RECURSIVE Reverse(_)
Reverse(s) == IF s = <<>> THEN <<>> ELSE Reverse(Tail(s)) \o <<Head(s)>>

NeighborSeq(E, v) == Reverse(SortedSeq(Neighbors(E, v)))

Range(s) == {s[i] : i \in 1..Len(s)}

\* ------------------------------------------------------- pairwise filling
\* graph.node_indices().combinations(2): lexicographic, each <<i, j>> with i < j
RECURSIVE CombFrom(_, _, _)
CombFrom(i, j, nc) ==
    IF i >= nc - 1 THEN <<>>
    ELSE IF j >= nc THEN CombFrom(i + 1, i + 2, nc)
    ELSE <<<<i, j>>>> \o CombFrom(i, j + 1, nc)

Combinations2(nc) == CombFrom(0, 1, nc)

\* petgraph all_simple_paths(graph, from, to, 0, None): every simple path
RECURSIVE SimplePaths(_, _, _, _)
SimplePaths(E, at, to, visited) ==
    IF at = to THEN {<<at>>}
    ELSE UNION {{<<at>> \o q : q \in SimplePaths(E, w, to, visited \cup {at})} :
                w \in Neighbors(E, at) \ (visited \cup {at})}

\* path.pop(): the path without its last element (the end node)
PathPop(path) == SubSeq(path, 1, Len(path) - 1)

\* FillTargets with the path popped twice
FillTargets_PopTwice(path, first_index) == Range(PathPop(PathPop(path))) \ {first_index}

\* the nodes whose bags are extended for one pair: those of the popped path
\* other than first_index
FillTargets(path, first_index) == Range(PathPop(path)) \ {first_index}

\* ExtendBags assigning the elements instead of adding them
ExtendBags_Overwrite(bags, targets, elems) ==
    [x \in DOMAIN bags |-> IF x \in targets THEN elems ELSE bags[x]]

ExtendBags(bags, targets, elems) ==
    [x \in DOMAIN bags |-> IF x \in targets THEN bags[x] \cup elems ELSE bags[x]]

\* ------------------------------------------------------ structural filling
\* PredecessorCmp comparing the levels only
PredecessorCmp_LevelOnly(a, b) ==
    IF a.level_index < b.level_index THEN "Less"
    ELSE IF a.level_index > b.level_index THEN "Greater"
    ELSE "Equal"

\* Ord for Predecessor: level_index first, node_index on equal levels
PredecessorCmp(a, b) ==
    IF a.level_index < b.level_index THEN "Less"
    ELSE IF a.level_index > b.level_index THEN "Greater"
    ELSE IF a.node_index < b.node_index THEN "Less"
    ELSE IF a.node_index > b.node_index THEN "Greater"
    ELSE "Equal"

\* BTreeSet::insert: a record comparing Equal to a member is not added
BTreeInsert(S, r) ==
    IF \E q \in S : PredecessorCmp(q, r) = "Equal" THEN S ELSE S \cup {r}

\* BTreeLast taking the least member (pop_first for pop_last)
BTreeLast_PopFirst(S) == CHOOSE r \in S : \A q \in S : PredecessorCmp(q, r) # "Less"

\* BTreeSet::pop_last / first: the greatest / least member under Ord
BTreeLast(S) == CHOOSE r \in S : \A q \in S : PredecessorCmp(q, r) # "Greater"
BTreeFirst(S) == CHOOSE r \in S : \A q \in S : PredecessorCmp(q, r) # "Less"

RECURSIVE BTreeInsertAll(_, _)
BTreeInsertAll(S, R) ==
    IF R = {} THEN S
    ELSE LET r == CHOOSE x \in R : TRUE
         IN  BTreeInsertAll(BTreeInsert(S, r), R \ {r})

\* max_by_key over node_indices() with key = number of neighbours: the last
\* node of maximum key
MaxDegreeNode(nc, E) ==
    CHOOSE v \in NodeIndices(nc) :
        \A w \in NodeIndices(nc) :
            \/ Cardinality(Neighbors(E, w)) < Cardinality(Neighbors(E, v))
            \/ (Cardinality(Neighbors(E, w)) = Cardinality(Neighbors(E, v)) /\ w <= v)

\* InitialLevel without the + 1
InitialLevel_NoIncrement(map, x) == IF x \in DOMAIN map THEN map[x][2] ELSE 0

\* the level a walker starts with: level of its parent + 1, or 0 for the root
InitialLevel(map, x) == IF x \in DOMAIN map THEN map[x][2] + 1 ELSE 0

\* InitialPredecessors entering walkers for more than two holders only
InitialPredecessors_MoreThanTwo(map, S) ==
    IF Cardinality(S) > 2
    THEN BTreeInsertAll({}, {[node_index |-> x, level_index |-> InitialLevel(map, x)] : x \in S})
    ELSE {}

\* the walkers entered at the start of fill_bags_until_common_predecessor
InitialPredecessors(map, S) ==
    IF Cardinality(S) > 1
    THEN BTreeInsertAll({}, {[node_index |-> x, level_index |-> InitialLevel(map, x)] : x \in S})
    ELSE {}

\* the clique-graph map of a tree: exact membership of every vertex held by a bag
MembershipMap(nc, bags) ==
    [v \in UNION {bags[x] : x \in NodeIndices(nc)} |-> {x \in NodeIndices(nc) : v \in bags[x]}]

\* find_width_of_tree_decomposition: max |bag| - 1, and 0 for the empty tree
Width(nc, bags) ==
    IF nc = 0 THEN 0
    ELSE (CHOOSE m \in {Cardinality(bags[x]) : x \in NodeIndices(nc)} :
             \A x \in NodeIndices(nc) : Cardinality(bags[x]) <= m) - 1

\* usize::cmp
UsizeCmp(a, b) == IF a < b THEN "Less" ELSE IF a > b THEN "Greater" ELSE "Equal"

\* PartialOrd for Predecessor: the levels' partial_cmp unless it is
\* Some(Equal), then the node indices' partial_cmp
PredecessorPartialCmp(a, b) ==
    LET any == <<"Some", UsizeCmp(a.level_index, b.level_index)>>
    IN  IF any = <<"Some", "Equal">>
        THEN <<"Some", UsizeCmp(a.node_index, b.node_index)>>
        ELSE any

\* derived PartialEq for Predecessor: field by field
PredecessorEq(a, b) == a.node_index = b.node_index /\ a.level_index = b.level_index

\* the Predecessor records tried
PredecessorRecords == [node_index : 0..MaxNodeIndex, level_index : 0..MaxLevel]

NoPredecessor == [node_index |-> 0, level_index |-> 0]
NoOrdering == [cmp |-> "none", partial_cmp |-> <<"None", "none">>, eq |-> FALSE]

\* no Predecessor has been built
OrdIdle ==
    /\ ord_pc = "idle" /\ predecessor_one = NoPredecessor
    /\ predecessor_two = NoPredecessor /\ ordering = NoOrdering /\ last_popped = {}

\* ------------------------------------------------------------------ Init
NonEmptyBags == (SUBSET Vertices) \ {{}}

\* bags of different components of the forest share no vertex (the clique
\* graph joins every two intersecting bags, so its spanning forest has one
\* tree per component of the clique graph)
ComponentsDisjoint(nc, E, bags) ==
    \A a, b \in NodeIndices(nc) :
        b \notin ReachFrom(E, {a}) => bags[a] \cap bags[b] = {}

FillIdle ==
    /\ node_count = 0 /\ tree = {} /\ before_filling = <<>>
    /\ clique_graph_alt = <<>> /\ clique_graph = <<>> /\ clique_graph_map = <<>>
    /\ pc = "idle" /\ pair_idx = 1 /\ root = 0 /\ tree_predecessor_map = <<>>
    /\ stack = <<>> /\ keys_left = {} /\ vertex_in_initial_graph = 0
    /\ predecessors = {} /\ pairwise_result = "none" /\ structure_result = "none"
    /\ panic_msg = ""

FillInit ==
    \E nc \in 0..MaxNodes :
      \E E \in {F \in SUBSET AllEdges(nc) : IsForest(nc, F)} :
        \E bags \in {b \in [NodeIndices(nc) -> NonEmptyBags] : ComponentsDisjoint(nc, E, b)} :
          /\ node_count = nc
          /\ tree = E
          /\ before_filling = bags
          /\ clique_graph_alt = bags
          /\ clique_graph = bags
          /\ clique_graph_map = MembershipMap(nc, bags)
          /\ pc = "pairwise"
          /\ pair_idx = 1
          /\ root = 0
          /\ tree_predecessor_map = <<>>
          /\ stack = <<>>
          /\ keys_left = {}
          /\ vertex_in_initial_graph = 0
          /\ predecessors = {}
          /\ pairwise_result = "none"
          /\ structure_result = "none"
          /\ panic_msg = ""

\* --------------------------------------------------------------- actions
structure_vars == <<clique_graph, root, tree_predecessor_map, stack, keys_left,
                    vertex_in_initial_graph, predecessors, structure_result>>
input_vars == <<node_count, tree, before_filling, clique_graph_map>>

\* one iteration of the loop over the 2-combinations (fill_bags_along_paths)
FillPair ==
    /\ pc = "pairwise"
    /\ pair_idx <= Len(Combinations2(node_count))
    /\ LET vec == Combinations2(node_count)[pair_idx]
           first_index == vec[2]
           second_index == vec[1]
           intersection_vec == clique_graph_alt[first_index] \cap clique_graph_alt[second_index]
           paths == SimplePaths(tree, first_index, second_index, {})
       IN  IF intersection_vec = {}
           THEN /\ pair_idx' = pair_idx + 1
                /\ UNCHANGED <<clique_graph_alt, pc, pairwise_result, panic_msg>>
           ELSE IF paths = {}
           THEN /\ pairwise_result' = "panicked"
                /\ panic_msg' = "There should be a path in the tree"
                /\ pc' = "structure"
                /\ UNCHANGED <<clique_graph_alt, pair_idx>>
           ELSE \E path \in paths :
                /\ clique_graph_alt' =
                       ExtendBags(clique_graph_alt, FillTargets(path, first_index), intersection_vec)
                /\ pair_idx' = pair_idx + 1
                /\ UNCHANGED <<pc, pairwise_result, panic_msg>>
    /\ UNCHANGED <<gen_vars, pairs_left, ord_vars, input_vars, structure_vars>>

\* fill_bags_along_paths returns once the combinations are exhausted
PairwiseReturn ==
    /\ pc = "pairwise"
    /\ pair_idx > Len(Combinations2(node_count))
    /\ pairwise_result' = "returned"
    /\ pc' = "structure"
    /\ UNCHANGED <<gen_vars, pairs_left, ord_vars, input_vars, structure_vars, clique_graph_alt, pair_idx, panic_msg>>

\* fill_bags_along_paths_using_structure: root selection and the first push
SelectRoot ==
    /\ pc = "structure"
    /\ IF node_count = 0
       THEN /\ structure_result' = "panicked"
            /\ panic_msg' = "Graph shouldn't be empty"
            /\ pc' = "done"
            /\ UNCHANGED <<root, stack, tree_predecessor_map>>
       ELSE /\ root' = MaxDegreeNode(node_count, tree)
            /\ stack' = <<<<MaxDegreeNode(node_count, tree), 0>>>>
            /\ tree_predecessor_map' = <<>>
            /\ pc' = "setup"
            /\ UNCHANGED <<structure_result, panic_msg>>
    /\ UNCHANGED <<gen_vars, pairs_left, ord_vars, input_vars, clique_graph_alt, pair_idx, pairwise_result,
                   clique_graph, keys_left, vertex_in_initial_graph, predecessors>>

\* NewlyReached without the test next_vertex != root
NewlyReached_RootNotExcluded(E, map, r, current_vertex) ==
    SelectSeq(NeighborSeq(E, current_vertex), LAMBDA w : w \notin DOMAIN map)

\* the nodes setup_predecessors reaches first from current_vertex, in the
\* order it pushes them
NewlyReached(E, map, r, current_vertex) ==
    SelectSeq(NeighborSeq(E, current_vertex),
              LAMBDA w : w \notin DOMAIN map /\ w # r)

\* one iteration of the while loop of setup_predecessors
SetupPredecessorsStep ==
    /\ pc = "setup"
    /\ stack # <<>>
    /\ LET current_vertex == stack[Len(stack)][1]
           current_index == stack[Len(stack)][2]
           next == NewlyReached(tree, tree_predecessor_map, root, current_vertex)
       IN  /\ tree_predecessor_map' =
                 [x \in DOMAIN tree_predecessor_map \cup Range(next) |->
                     IF x \in Range(next) THEN <<current_vertex, current_index>>
                     ELSE tree_predecessor_map[x]]
           /\ stack' = SubSeq(stack, 1, Len(stack) - 1)
                       \o [i \in 1..Len(next) |-> <<next[i], current_index + 1>>]
    /\ UNCHANGED <<gen_vars, pairs_left, ord_vars, input_vars, clique_graph_alt, pair_idx, pairwise_result, pc, root,
                   clique_graph, keys_left, vertex_in_initial_graph, predecessors,
                   structure_result, panic_msg>>

\* the two assertions that end setup_predecessors, then the loop over the keys
SetupPredecessorsAssert ==
    /\ pc = "setup"
    /\ stack = <<>>
    /\ IF Cardinality(DOMAIN tree_predecessor_map) # node_count - 1
       THEN /\ structure_result' = "panicked"
            /\ panic_msg' = "Predecessor Map doesn't contain predecessors for all vertices"
            /\ pc' = "done"
            /\ UNCHANGED keys_left
       ELSE IF root \in DOMAIN tree_predecessor_map
       THEN /\ structure_result' = "panicked"
            /\ panic_msg' = "Root shouldn't have predecessor in predecessor map"
            /\ pc' = "done"
            /\ UNCHANGED keys_left
       ELSE /\ keys_left' = DOMAIN clique_graph_map
            /\ pc' = "keys"
            /\ UNCHANGED <<structure_result, panic_msg>>
    /\ UNCHANGED <<gen_vars, pairs_left, ord_vars, input_vars, clique_graph_alt, pair_idx, pairwise_result, root,
                   tree_predecessor_map, stack, clique_graph,
                   vertex_in_initial_graph, predecessors>>

\* the next key of clique_graph_map (a HashMap: any order) and the set-up of
\* the walkers in fill_bags_until_common_predecessor
NextKey ==
    /\ pc = "keys"
    /\ \E v \in keys_left :
        /\ vertex_in_initial_graph' = v
        /\ keys_left' = keys_left \ {v}
        /\ predecessors' = InitialPredecessors(tree_predecessor_map, clique_graph_map[v])
    /\ pc' = "walk"
    /\ UNCHANGED <<gen_vars, pairs_left, ord_vars, input_vars, clique_graph_alt, pair_idx, pairwise_result, root,
                   tree_predecessor_map, stack, clique_graph, structure_result, panic_msg>>

\* one iteration of the while loop of fill_bags_until_common_predecessor
WalkStep ==
    /\ pc = "walk"
    /\ Cardinality(predecessors) > 1
    /\ LET current == BTreeLast(predecessors)
           popped == predecessors \ {current}
       IN  /\ clique_graph' =
                 ExtendBags(clique_graph, {current.node_index}, {vertex_in_initial_graph})
           /\ predecessors' =
                 IF current.node_index \in DOMAIN tree_predecessor_map
                 THEN BTreeInsert(popped,
                          [node_index |-> tree_predecessor_map[current.node_index][1],
                           level_index |-> tree_predecessor_map[current.node_index][2]])
                 ELSE popped
    /\ UNCHANGED <<gen_vars, pairs_left, ord_vars, input_vars, clique_graph_alt, pair_idx, pairwise_result, pc, root,
                   tree_predecessor_map, stack, keys_left, vertex_in_initial_graph,
                   structure_result, panic_msg>>

\* the insertion into the common predecessor after the loop
WalkEnd ==
    /\ pc = "walk"
    /\ Cardinality(predecessors) <= 1
    /\ clique_graph' =
          IF predecessors # {}
          THEN ExtendBags(clique_graph, {BTreeFirst(predecessors).node_index},
                          {vertex_in_initial_graph})
          ELSE clique_graph
    /\ pc' = "keys"
    /\ UNCHANGED <<gen_vars, pairs_left, ord_vars, input_vars, clique_graph_alt, pair_idx, pairwise_result, root,
                   tree_predecessor_map, stack, keys_left, vertex_in_initial_graph,
                   predecessors, structure_result, panic_msg>>

\* fill_bags_along_paths_using_structure returns the predecessor map
StructureReturn ==
    /\ pc = "keys"
    /\ keys_left = {}
    /\ structure_result' = "returned"
    /\ pc' = "done"
    /\ UNCHANGED <<gen_vars, pairs_left, ord_vars, input_vars, clique_graph_alt, pair_idx, pairwise_result, root,
                   tree_predecessor_map, stack, clique_graph, keys_left,
                   vertex_in_initial_graph, predecessors, panic_msg>>


\* --------------------------------------------------- partial k-tree generator
Min(a, b) == IF a <= b THEN a ELSE b

\* rand's IteratorRandom::choose_multiple over the items 0..len-1: the first
\* `amount` items fill the reservoir in order, every later item may replace any
\* slot; the result keeps the slot order
ChooseMultiple(len, amount) ==
    LET m == Min(len, amount)
        later == m..(len - 1)
        raw == {f \in [1..m -> later \cup {-1}] :
                   \A i, j \in 1..m : (i # j /\ f[i] # -1) => f[i] # f[j]}
    IN  {[j \in 1..m |-> IF f[j] = -1 THEN j - 1 ELSE f[j]] : f \in raw}

\* generate_complete_graph(k): edges (i, j), i < j, in the order of the loops
RECURSIVE CompleteEdgesFrom(_, _, _)
CompleteEdgesFrom(i, j, kk) ==
    IF i >= kk THEN <<>>
    ELSE IF j >= kk THEN CompleteEdgesFrom(i + 1, i + 2, kk)
    ELSE <<<<i, j>>>> \o CompleteEdgesFrom(i, j + 1, kk)

CompleteGraphEdges(kk) == CompleteEdgesFrom(0, 1, kk)

\* the candidates a new vertex chooses its k neighbours from:
\* graph.node_identifiers() after graph.add_node, new_vertex included
AttachmentCandidates(nodes_before) == nodes_before + 1

\* petgraph Graph::remove_edge(e): None if e is no edge id; otherwise the last
\* edge takes the id e
RemoveEdge(edges, e) ==
    IF e >= Len(edges) THEN edges
    ELSE [i \in 1..(Len(edges) - 1) |-> IF i = e + 1 THEN edges[Len(edges)] ELSE edges[i]]

\* number_of_edges = k * (k - 1) / 2 + k * (n - k) in usize; for k = 0 the
\* subtraction underflows: with wrapping 0 * (2^64 - 1) / 2 + 0 = 0
NumberOfEdges(kk, nn) == IF kk = 0 THEN 0 ELSE (kk * (kk - 1)) \div 2 + kk * (nn - kk)

NumberOfEdgesOverflows(kk) == kk = 0

NumberOfEdgesToBeRemoved(kk, nn, pp) ==
    Min((NumberOfEdges(kk, nn) * pp) \div 100, NumberOfEdges(kk, nn))

\* maximum_minimum_degree: the degree of a vertex is its number of neighbours
\* (a self-loop counts once)
Degree(edges, v) ==
    Cardinality({i \in 1..Len(edges) : edges[i][1] = v \/ edges[i][2] = v})

RemoveVertex(edges, v) == SelectSeq(edges, LAMBDA e : e[1] # v /\ e[2] # v)

RECURSIVE MaxMinDegreeFrom(_, _, _)
MaxMinDegreeFrom(V, edges, best) ==
    IF V = {} THEN best
    ELSE LET v == CHOOSE x \in V :
                      \A y \in V : \/ Degree(edges, x) < Degree(edges, y)
                                   \/ (Degree(edges, x) = Degree(edges, y) /\ x <= y)
             d == Degree(edges, v)
         IN  MaxMinDegreeFrom(V \ {v}, RemoveVertex(edges, v), IF d > best THEN d ELSE best)

MaximumMinimumDegree(nodes, edges) == MaxMinDegreeFrom(0..(nodes - 1), edges, 0)

\* AcceptGraph with <= for ==
AcceptGraph_AtMost(nodes, edges, kk) == MaximumMinimumDegree(nodes, edges) <= kk

\* the test of the guarantee loop
AcceptGraph(nodes, edges, kk) == MaximumMinimumDegree(nodes, edges) = kk

GenIdle ==
    /\ k = 0 /\ n = 0 /\ p = 0 /\ entry = "none" /\ overflow_checks = FALSE
    /\ gen_pc = "idle" /\ graph_nodes = 0 /\ graph_edges = <<>>
    /\ to_remove = <<>> /\ gen_result = "none" /\ discarded = FALSE

GenInit ==
    /\ k \in 0..MaxK
    /\ n \in 0..MaxN
    /\ p \in Percents
    /\ entry \in {"partial", "guaranteed"}
    /\ overflow_checks \in BOOLEAN
    /\ gen_pc = "start"
    /\ graph_nodes = 0
    /\ graph_edges = <<>>
    /\ to_remove = <<>>
    /\ gen_result = "none"
    /\ discarded = FALSE

gen_inputs == <<k, n, p, entry, overflow_checks>>

\* generate_k_tree up to the extension loop: None if k > n, else the complete
\* graph on k vertices
GenerateKTree ==
    /\ gen_pc = "start"
    /\ IF k > n
       THEN /\ gen_result' = "absent"
            /\ gen_pc' = "done"
            /\ UNCHANGED <<graph_nodes, graph_edges>>
       ELSE /\ graph_nodes' = k
            /\ graph_edges' = CompleteGraphEdges(k)
            /\ gen_pc' = "extend"
            /\ UNCHANGED gen_result
    /\ UNCHANGED <<fill_vars, pairs_left, ord_vars, gen_inputs, discarded, to_remove>>

\* one iteration of `for _ in k..n`: add a vertex and its k edges
AddVertex ==
    /\ gen_pc = "extend"
    /\ graph_nodes < n
    /\ \E chosen \in ChooseMultiple(AttachmentCandidates(graph_nodes), k) :
        /\ graph_nodes' = graph_nodes + 1
        /\ graph_edges' = graph_edges \o [i \in 1..Len(chosen) |-> <<graph_nodes, chosen[i]>>]
    /\ UNCHANGED <<fill_vars, pairs_left, ord_vars, gen_inputs, discarded, gen_pc, to_remove, gen_result>>

\* generate_partial_k_tree after generate_k_tree returned Some: the number of
\* edges to remove and their choice
ChooseEdgesToRemove ==
    /\ gen_pc = "extend"
    /\ graph_nodes = n
    /\ IF NumberOfEdgesOverflows(k) /\ overflow_checks
       THEN /\ gen_result' = "panicked"
            /\ gen_pc' = "done"
            /\ UNCHANGED to_remove
       ELSE /\ \E chosen \in ChooseMultiple(Len(graph_edges), NumberOfEdgesToBeRemoved(k, n, p)) :
                 to_remove' = chosen
            /\ gen_pc' = "remove"
            /\ UNCHANGED gen_result
    /\ UNCHANGED <<fill_vars, pairs_left, ord_vars, gen_inputs, discarded, graph_nodes, graph_edges>>

\* one iteration of the removal loop
RemoveChosenEdge ==
    /\ gen_pc = "remove"
    /\ to_remove # <<>>
    /\ graph_edges' = RemoveEdge(graph_edges, Head(to_remove))
    /\ to_remove' = Tail(to_remove)
    /\ UNCHANGED <<fill_vars, pairs_left, ord_vars, gen_inputs, discarded, gen_pc, graph_nodes, gen_result>>

\* generate_partial_k_tree returns Some(graph) to its caller
ReturnPartial ==
    /\ gen_pc = "remove"
    /\ to_remove = <<>>
    /\ IF entry = "partial"
       THEN gen_result' = "some" /\ gen_pc' = "done"
       ELSE gen_result' = "none" /\ gen_pc' = "check"
    /\ UNCHANGED <<fill_vars, pairs_left, ord_vars, gen_inputs, discarded, graph_nodes, graph_edges, to_remove>>

\* the guarantee loop accepts the candidate
ReturnGuaranteed ==
    /\ gen_pc = "check"
    /\ AcceptGraph(graph_nodes, graph_edges, k)
    /\ gen_result' = "some"
    /\ gen_pc' = "done"
    /\ UNCHANGED <<fill_vars, pairs_left, ord_vars, gen_inputs, discarded, graph_nodes, graph_edges, to_remove>>

\* the guarantee loop discards the candidate and starts over
DiscardGraph ==
    /\ gen_pc = "check"
    /\ ~AcceptGraph(graph_nodes, graph_edges, k)
    /\ graph_nodes' = 0
    /\ graph_edges' = <<>>
    /\ gen_pc' = "start"
    /\ discarded' = TRUE
    /\ UNCHANGED <<fill_vars, pairs_left, ord_vars, gen_inputs, to_remove, gen_result>>

Init == FillInit /\ GenIdle /\ pairs_left = {} /\ OrdIdle

Next ==
    \/ FillPair
    \/ PairwiseReturn
    \/ SelectRoot
    \/ SetupPredecessorsStep
    \/ SetupPredecessorsAssert
    \/ NextKey
    \/ WalkStep
    \/ WalkEnd
    \/ StructureReturn

Spec == Init /\ [][Next]_vars

InitGen == FillIdle /\ GenInit /\ pairs_left = {} /\ OrdIdle

NextGen ==
    \/ GenerateKTree
    \/ AddVertex
    \/ ChooseEdgesToRemove
    \/ RemoveChosenEdge
    \/ ReturnPartial
    \/ ReturnGuaranteed
    \/ DiscardGraph

SpecGen == InitGen /\ [][NextGen]_vars

\* ------------------------------------------- Predecessor records in a BTreeSet
\* what the operations on one BTreeSet<Predecessor> leave alone
walker_free_vars == <<node_count, tree, before_filling, clique_graph_alt, clique_graph,
                      clique_graph_map, pc, pair_idx, root, tree_predecessor_map, stack,
                      keys_left, vertex_in_initial_graph, pairwise_result,
                      structure_result, panic_msg>>

\* predecessors.insert(record)
PredInsert ==
    /\ Cardinality(predecessors) < MaxWalkers
    /\ \E record \in PredecessorRecords :
          /\ predecessor_one' = record
          /\ predecessors' = BTreeInsert(predecessors, record)
    /\ ord_pc' = "insert"
    /\ predecessor_two' = NoPredecessor
    /\ ordering' = NoOrdering
    /\ last_popped' = {}
    /\ UNCHANGED <<gen_vars, pairs_left, walker_free_vars>>

\* predecessors.pop_last()
PredPopLast ==
    /\ last_popped' = IF predecessors = {} THEN {} ELSE {BTreeLast(predecessors)}
    /\ predecessors' = predecessors \ last_popped'
    /\ ord_pc' = "pop_last"
    /\ predecessor_one' = NoPredecessor
    /\ predecessor_two' = NoPredecessor
    /\ ordering' = NoOrdering
    /\ UNCHANGED <<gen_vars, pairs_left, walker_free_vars>>

\* self.cmp(&other), partial_cmp and == for a member of the set and any record
\* (the comparisons insert makes on its way down the tree)
PredCompare ==
    /\ \E self \in predecessors : \E other \in PredecessorRecords :
          /\ predecessor_one' = self
          /\ predecessor_two' = other
          /\ ordering' = [cmp |-> PredecessorCmp(self, other),
                          partial_cmp |-> PredecessorPartialCmp(self, other),
                          eq |-> PredecessorEq(self, other)]
    /\ ord_pc' = "cmp"
    /\ last_popped' = {}
    /\ UNCHANGED <<gen_vars, pairs_left, walker_free_vars, predecessors>>

\* BTreeSet::new()
InitPred ==
    /\ FillIdle /\ GenIdle /\ pairs_left = {}
    /\ ord_pc = "new" /\ predecessor_one = NoPredecessor
    /\ predecessor_two = NoPredecessor /\ ordering = NoOrdering /\ last_popped = {}

NextPred ==
    \/ PredInsert
    \/ PredPopLast
    \/ PredCompare

SpecPred == InitPred /\ [][NextPred]_vars

\* ------------------------------- filling with the orders left to the caller
\* the 2-combinations of the node indices, as sets
PairSet(nc) == {pair \in SUBSET NodeIndices(nc) : Cardinality(pair) = 2}

\* the loop body of fill_bags_along_paths for any combination not yet
\* visited, with either of its members as first_index
FillPairAnyOrder ==
    /\ pc = "pairwise"
    /\ \E pair \in pairs_left : \E first_index \in pair :
        LET second_index == CHOOSE x \in pair : x # first_index
            intersection_vec == clique_graph_alt[first_index] \cap clique_graph_alt[second_index]
            paths == SimplePaths(tree, first_index, second_index, {})
        IN  /\ pairs_left' = pairs_left \ {pair}
            /\ IF intersection_vec = {}
               THEN UNCHANGED <<clique_graph_alt, pc, pairwise_result, panic_msg>>
               ELSE IF paths = {}
               THEN /\ pairwise_result' = "panicked"
                    /\ panic_msg' = "There should be a path in the tree"
                    /\ pc' = "structure"
                    /\ UNCHANGED clique_graph_alt
               ELSE \E path \in paths :
                    /\ clique_graph_alt' =
                           ExtendBags(clique_graph_alt, FillTargets(path, first_index), intersection_vec)
                    /\ UNCHANGED <<pc, pairwise_result, panic_msg>>
    /\ UNCHANGED <<gen_vars, ord_vars, input_vars, structure_vars, pair_idx>>

\* fill_bags_along_paths returns once every combination has been visited
PairwiseReturnAnyOrder ==
    /\ pc = "pairwise"
    /\ pairs_left = {}
    /\ pairwise_result' = "returned"
    /\ pc' = "structure"
    /\ UNCHANGED <<gen_vars, pairs_left, ord_vars, input_vars, structure_vars,
                   clique_graph_alt, pair_idx, panic_msg>>

\* fill_bags_along_paths_using_structure with any node as root
SelectAnyRoot ==
    /\ pc = "structure"
    /\ IF node_count = 0
       THEN /\ structure_result' = "panicked"
            /\ panic_msg' = "Graph shouldn't be empty"
            /\ pc' = "done"
            /\ UNCHANGED <<root, stack, tree_predecessor_map>>
       ELSE \E r \in NodeIndices(node_count) :
            /\ root' = r
            /\ stack' = <<<<r, 0>>>>
            /\ tree_predecessor_map' = <<>>
            /\ pc' = "setup"
            /\ UNCHANGED <<structure_result, panic_msg>>
    /\ UNCHANGED <<gen_vars, pairs_left, ord_vars, input_vars, clique_graph_alt, pair_idx,
                   pairwise_result, clique_graph, keys_left, vertex_in_initial_graph,
                   predecessors>>

InitOrder ==
    /\ FillInit /\ GenIdle /\ OrdIdle
    /\ pairs_left = PairSet(node_count)

NextOrder ==
    \/ FillPairAnyOrder
    \/ PairwiseReturnAnyOrder
    \/ SelectAnyRoot
    \/ SetupPredecessorsStep
    \/ SetupPredecessorsAssert
    \/ NextKey
    \/ WalkStep
    \/ WalkEnd
    \/ StructureReturn

SpecOrder == InitOrder /\ [][NextOrder]_vars



\* ================================================================ properties
\* the T-nodes whose bag holds v
Holders(nc, bags, v) == {x \in NodeIndices(nc) : v \in bags[x]}

\* H induces a connected subgraph of the forest E
InducesConnected(E, H) ==
    H = {} \/ ReachFrom({e \in E : e \subseteq H}, {CHOOSE h \in H : TRUE}) = H

RunningIntersection(nc, E, bags) ==
    \A v \in Vertices : InducesConnected(E, Holders(nc, bags, v))

RunningIntersectionPerComponent(nc, E, bags) ==
    \A v \in Vertices : \A C \in Components(nc, E) :
        InducesConnected(E, Holders(nc, bags, v) \cap C)

\* C1: on a tree (connected, at least one node), once fill_bags_along_paths has
\* returned, and once fill_bags_along_paths_using_structure has returned, the
\* nodes whose bag holds a vertex v induce a connected subtree, for every v.
C1_RunningIntersection ==
    IsTree(node_count, tree) =>
        /\ pairwise_result = "returned" =>
               RunningIntersection(node_count, tree, clique_graph_alt)
        /\ structure_result = "returned" =>
               RunningIntersection(node_count, tree, clique_graph)

\* both strategies have returned on a tree whose bags did not have the running
\* intersection property, and both changed bags
C1_Witness ==
    /\ IsTree(node_count, tree)
    /\ pairwise_result = "returned"
    /\ structure_result = "returned"
    /\ ~RunningIntersection(node_count, tree, before_filling)
    /\ clique_graph # before_filling
    /\ clique_graph_alt # before_filling

\* C2: from the same pre-filling tree, with the clique-graph map the exact
\* membership, both strategies end with the same bag at every node, and the
\* same width.
C2_StrategiesAgree ==
    (pairwise_result = "returned" /\ structure_result = "returned") =>
        /\ clique_graph = clique_graph_alt
        /\ Width(node_count, clique_graph) = Width(node_count, clique_graph_alt)

\* both have returned, the walk met below the root, and bags were filled
C2_Witness ==
    /\ pairwise_result = "returned"
    /\ structure_result = "returned"
    /\ clique_graph # before_filling
    /\ \E x \in NodeIndices(node_count) :
          /\ clique_graph[x] # before_filling[x]
          /\ x # root
    /\ \E v \in Vertices : v \notin clique_graph[root]

\* C3: on a spanning forest with more than one component neither strategy
\* aborts, and after each the running intersection property holds within each
\* component.
C3_ForestTolerance ==
    (node_count >= 1 /\ Cardinality(Components(node_count, tree)) > 1) =>
        /\ pairwise_result # "panicked"
        /\ structure_result # "panicked"
        /\ pairwise_result = "returned" =>
               RunningIntersectionPerComponent(node_count, tree, clique_graph_alt)
        /\ structure_result = "returned" =>
               RunningIntersectionPerComponent(node_count, tree, clique_graph)

\* C4: on the empty tree with the empty clique-graph map neither strategy
\* aborts, and the tree stays empty, of width 0.
C4_EmptyInput ==
    (node_count = 0 /\ DOMAIN clique_graph_map = {}) =>
        /\ pairwise_result # "panicked"
        /\ structure_result # "panicked"
        /\ DOMAIN clique_graph = {} /\ DOMAIN clique_graph_alt = {}
        /\ Width(node_count, clique_graph) = 0
        /\ pc = "done" => (pairwise_result = "returned" /\ structure_result = "returned")

\* generate_partial_k_tree has returned Some(graph) (to the caller, or to the
\* guarantee loop)
PartialReturned == gen_result = "some" \/ gen_pc = "check"

\* generate_k_tree has returned Some(graph)
KTreeBuilt == gen_pc = "extend" /\ graph_nodes = n

\* the edge count of the k-tree before deletion, in unbounded integers
KTreeEdges == (k * (k - 1)) \div 2 + k * (n - k)

\* C5: the graph generate_partial_k_tree returns has exactly
\* E - min(floor(E * p / 100), E) edges, E = k(k-1)/2 + k(n-k).
C5_EdgeCount ==
    PartialReturned =>
        Len(graph_edges) = KTreeEdges - Min((KTreeEdges * p) \div 100, KTreeEdges)

\* C6: with p >= 100 the graph generate_partial_k_tree returns has n vertices
\* and no edges.
C6_FullDeletion ==
    (PartialReturned /\ p >= 100) => (graph_nodes = n /\ Len(graph_edges) = 0)

\* C7: every edge of an added vertex goes to a vertex that existed before it,
\* the k edges of an added vertex go to k distinct vertices, and no edge joins
\* a vertex to itself.
C7_AttachToExisting ==
    (gen_pc = "extend") =>
        /\ \A i \in 1..Len(graph_edges) : graph_edges[i][1] # graph_edges[i][2]
        /\ \A i \in 1..Len(graph_edges) :
              graph_edges[i][1] >= k => graph_edges[i][2] < graph_edges[i][1]
        /\ \A v \in k..(graph_nodes - 1) :
              Cardinality({graph_edges[i][2] : i \in {j \in 1..Len(graph_edges) :
                                                      graph_edges[j][1] = v}}) = k

\* C8: the maximum minimum degree of every graph generate_k_tree(k, n) returns
\* is k.
C8_KTreeMaxMinDegree ==
    KTreeBuilt => MaximumMinimumDegree(graph_nodes, graph_edges) = k

\* C9: with k > n both generators return None without building a graph; with
\* k <= n generate_partial_k_tree returns a graph and does not abort.
C9_Precondition ==
    /\ k > n => (graph_nodes = 0 /\ graph_edges = <<>> /\ gen_result \in {"none", "absent"})
    /\ (k > n /\ gen_pc = "done") => gen_result = "absent"
    /\ k <= n => gen_result \notin {"absent", "panicked"}
    /\ (k <= n /\ entry = "partial" /\ gen_pc = "done") => gen_result = "some"

\* C10: a graph generate_partial_k_tree_with_guaranteed_treewidth returns has
\* maximum minimum degree k, and a candidate under test that has not is
\* not returned.
C10_GuaranteeLoop ==
    (entry = "guaranteed" /\ gen_result = "some") =>
        MaximumMinimumDegree(graph_nodes, graph_edges) = k

\* the guarantee loop has returned a graph after discarding a candidate
C10_Witness ==
    /\ entry = "guaranteed"
    /\ gen_result = "some"
    /\ discarded
    /\ k >= 1
    /\ n > k

\* every bag holds what it held before the call, and T has the nodes it had
BagsContainSnapshot ==
    /\ DOMAIN clique_graph = DOMAIN before_filling
    /\ DOMAIN clique_graph_alt = DOMAIN before_filling
    /\ DOMAIN before_filling = NodeIndices(node_count)
    /\ \A x \in DOMAIN before_filling :
          /\ before_filling[x] \subseteq clique_graph[x]
          /\ before_filling[x] \subseteq clique_graph_alt[x]

\* a step removes no element from a bag and leaves the nodes and edges of T
BagsGrowStep ==
    /\ node_count' = node_count
    /\ tree' = tree
    /\ DOMAIN clique_graph' = DOMAIN clique_graph
    /\ DOMAIN clique_graph_alt' = DOMAIN clique_graph_alt
    /\ \A x \in DOMAIN clique_graph : clique_graph[x] \subseteq clique_graph'[x]
    /\ \A x \in DOMAIN clique_graph_alt : clique_graph_alt[x] \subseteq clique_graph_alt'[x]

\* C11: in every state reached during either strategy each bag is a superset of
\* the bag the node had before the call, no step removes an element from a
\* bag, and the node set and the edge set of T do not change.
C11_BagsOnlyGrow == []BagsContainSnapshot /\ [][BagsGrowStep]_vars

\* the structural walk is under way and has filled the root's bag, and both
\* strategies have made a bag strictly larger than before the call
C11_Witness ==
    /\ pc = "walk"
    /\ \E x \in DOMAIN before_filling : clique_graph[x] # before_filling[x]
    /\ \E x \in DOMAIN before_filling : clique_graph_alt[x] # before_filling[x]
    /\ before_filling[root] # clique_graph[root]

\* ---- the tree rooted at r, read off the edges of T alone
\* the path from x up to r
PathToRoot(E, r, x) == CHOOSE path \in SimplePaths(E, x, r, {}) : TRUE

\* x and its ancestors, r included
Ancestors(E, r, x) == Range(PathToRoot(E, r, x))

\* distance from the root
Depth(E, r, x) == Len(PathToRoot(E, r, x)) - 1

\* the lowest common ancestor of a non-empty set S
CommonAncestor(E, r, S) ==
    LET common == {y \in Ancestors(E, r, CHOOSE s \in S : TRUE) :
                      \A s \in S : y \in Ancestors(E, r, s)}
    IN  CHOOSE c \in common : \A y \in common : Depth(E, r, y) <= Depth(E, r, c)

\* the nodes on the paths from the members of S up to their lowest common
\* ancestor, the ancestor included
PathsToCommonAncestor(E, r, S) ==
    IF S = {} THEN {}
    ELSE LET c == CommonAncestor(E, r, S)
         IN  UNION {{y \in Ancestors(E, r, s) : Depth(E, r, y) >= Depth(E, r, c)} : s \in S}

\* setup_predecessors has passed its assertions
SetupPassed == pc \in {"keys", "walk"} \/ structure_result = "returned"

\* the walk for v has returned / is under way / is still to come
WalkUnderWay(v) == pc = "walk" /\ vertex_in_initial_graph = v
WalkReturned(v) == SetupPassed /\ v \in DOMAIN clique_graph_map /\ v \notin keys_left /\ ~WalkUnderWay(v)

RECURSIVE LevelSum(_)
LevelSum(S) ==
    IF S = {} THEN 0
    ELSE LET r == CHOOSE x \in S : TRUE
         IN  r.level_index + 1 + LevelSum(S \ {r})

WalkFillsPathsOnly ==
    \A v \in Vertices :
        LET S == Holders(node_count, before_filling, v)
            H == Holders(node_count, clique_graph, v)
        IN  /\ WalkReturned(v) => H = PathsToCommonAncestor(tree, root, S)
            /\ WalkUnderWay(v) => (S \subseteq H /\ H \subseteq PathsToCommonAncestor(tree, root, S))
            /\ (~WalkReturned(v) /\ ~WalkUnderWay(v)) => H = S
            /\ (WalkReturned(v) /\ Cardinality(S) <= 1) => H = S

\* a pass of the while loop lowers the sum of the walkers' levels, so the loop ends
WalkProgress ==
    (pc = "walk" /\ pc' = "walk") =>
        /\ LevelSum(predecessors') < LevelSum(predecessors)
        /\ \A x \in DOMAIN clique_graph :
              clique_graph'[x] \ clique_graph[x] \subseteq {vertex_in_initial_graph}

\* C13: fill_bags_until_common_predecessor terminates, and on return the nodes
\* whose bag holds v are exactly those on the tree paths from the holders S of
\* v to their lowest common ancestor (included); no other bag gains v, no bag
\* gains another element, and with |S| <= 1 no bag changes.
C13_WalkToCommonAncestor == []WalkFillsPathsOnly /\ [][WalkProgress]_vars

\* a walk has returned that put v into a node outside S and left a node without v
C13_Witness ==
    /\ pc = "keys"
    /\ \E v \in DOMAIN clique_graph_map :
          /\ WalkReturned(v)
          /\ Cardinality(clique_graph_map[v]) >= 2
          /\ Holders(node_count, clique_graph, v) # clique_graph_map[v]
          /\ Holders(node_count, clique_graph, v) # NodeIndices(node_count)

PredecessorMapCorrect ==
    /\ DOMAIN tree_predecessor_map = NodeIndices(node_count) \ {root}
    /\ Cardinality(DOMAIN tree_predecessor_map) = node_count - 1
    /\ \A w \in NodeIndices(node_count) :
          Cardinality(Neighbors(tree, w)) <= Cardinality(Neighbors(tree, root))
    /\ \A x \in DOMAIN tree_predecessor_map :
          /\ tree_predecessor_map[x][1] = PathToRoot(tree, root, x)[2]
          /\ tree_predecessor_map[x][2] = Depth(tree, root, tree_predecessor_map[x][1])

WalkersCarryDepth ==
    /\ \A r \in predecessors : r.level_index = Depth(tree, root, r.node_index)
    /\ \A r, q \in predecessors : r.node_index = q.node_index => r = q

SetupPredecessorsCorrect ==
    IsTree(node_count, tree) =>
        /\ structure_result # "panicked"
        /\ SetupPassed => PredecessorMapCorrect
        /\ pc = "walk" => WalkersCarryDepth

\* a pass of the while loop of setup_predecessors lowers twice the number of
\* nodes without an entry plus the stack length, so the loop ends
SetupProgress ==
    (pc = "setup" /\ pc' = "setup") =>
        2 * (node_count - Cardinality(DOMAIN tree_predecessor_map')) + Len(stack')
           < 2 * (node_count - Cardinality(DOMAIN tree_predecessor_map)) + Len(stack)

\* C14: on every tree with at least one node, rooted at a node of maximum
\* degree, setup_predecessors terminates with both assertions satisfied; every
\* non-root node is mapped to its neighbour towards the root with that
\* neighbour's distance from the root; every walker carries its node's true
\* depth and no node is in the walker set under two levels.
C14_PredecessorMap == []SetupPredecessorsCorrect /\ [][SetupProgress]_vars

\* a walk on a tree of depth 2 with walkers on two different levels
C14_Witness ==
    /\ IsTree(node_count, tree)
    /\ pc = "walk"
    /\ \E x \in DOMAIN tree_predecessor_map : tree_predecessor_map[x][2] = 1
    /\ \E r, q \in predecessors : r.level_index = 2 /\ q.level_index = 1

\* ---- the order on Predecessor records
\* the records at hand: the members of the set and those last passed in
KnownPredecessors == predecessors \cup {predecessor_one, predecessor_two} \cup last_popped

\* level_index is the primary key, node_index breaks ties, and Equal is
\* returned for identical records only
LevelThenNode ==
    \A a, b \in KnownPredecessors :
        /\ a.level_index < b.level_index => PredecessorCmp(a, b) = "Less"
        /\ (a.level_index = b.level_index /\ a.node_index < b.node_index)
              => PredecessorCmp(a, b) = "Less"
        /\ PredecessorCmp(a, b) = "Equal" <=> a = b
        /\ PredecessorEq(a, b) <=> a = b

\* exactly one of Less, Equal, Greater; antisymmetric and transitive
TotalOrder ==
    \A a, b, c \in KnownPredecessors :
        /\ PredecessorCmp(a, b) \in {"Less", "Equal", "Greater"}
        /\ PredecessorCmp(a, b) = "Less" <=> PredecessorCmp(b, a) = "Greater"
        /\ (PredecessorCmp(a, b) = "Less" /\ PredecessorCmp(b, c) = "Less")
              => PredecessorCmp(a, c) = "Less"
        /\ PredecessorPartialCmp(a, b) = <<"Some", PredecessorCmp(a, b)>>

\* what the last cmp, partial_cmp and == returned
ComparisonResult ==
    ord_pc = "cmp" =>
        /\ ordering.cmp = "Equal" <=> predecessor_one = predecessor_two
        /\ ordering.cmp = "Less" <=>
              \/ predecessor_one.level_index < predecessor_two.level_index
              \/ /\ predecessor_one.level_index = predecessor_two.level_index
                 /\ predecessor_one.node_index < predecessor_two.node_index
        /\ ordering.cmp \in {"Less", "Equal", "Greater"}
        /\ ordering.partial_cmp = <<"Some", ordering.cmp>>
        /\ ordering.eq <=> ordering.cmp = "Equal"

\* insert keeps a record unless the identical record is a member
InsertKeepsDistinct ==
    ord_pc' = "insert" =>
        /\ predecessors' = predecessors \cup {predecessor_one'}
        /\ predecessor_one' \in predecessors => predecessors' = predecessors
        /\ predecessor_one' \notin predecessors =>
              Cardinality(predecessors') = Cardinality(predecessors) + 1

\* pop_last removes and returns a member of maximum level_index
PopLastIsDeepest ==
    (ord_pc' = "pop_last" /\ predecessors # {}) =>
        /\ Cardinality(last_popped') = 1
        /\ last_popped' \subseteq predecessors
        /\ predecessors' = predecessors \ last_popped'
        /\ \A r \in last_popped' : \A q \in predecessors :
              /\ q.level_index <= r.level_index
              /\ q.level_index = r.level_index => q.node_index <= r.node_index

\* C12: the order on Predecessor records is total, with level_index as primary
\* key and node_index as tie-break, and consistent with equality; the ordered
\* set keeps two records apart unless level and node both agree: inserting an
\* identical record leaves the set unchanged, inserting one of equal level and
\* different node adds it, and pop_last returns a record of maximum level.
C12_PredecessorOrdering ==
    /\ [](LevelThenNode /\ TotalOrder /\ ComparisonResult)
    /\ [][InsertKeepsDistinct /\ PopLastIsDeepest]_vars

\* test_predecessor_eq: two records of equal level and different node inserted,
\* both kept
C12_Witness ==
    /\ ord_pc = "insert"
    /\ Cardinality(predecessors) = 2
    /\ \E a, b \in predecessors :
          a.level_index = b.level_index /\ a.node_index # b.node_index
    /\ predecessor_one \in predecessors

\* ---- order independence
\* the nodes on the tree paths between two holders
PathsBetween(E, H) ==
    UNION {UNION {Range(path) : path \in SimplePaths(E, a, b, {})} : a \in H, b \in H} \cup H

\* the bags the pre-filling bags determine: every vertex in every bag on a tree
\* path between two of its holders
FilledBags(nc, E, bags) ==
    [x \in NodeIndices(nc) |->
        bags[x] \cup {v \in Vertices : x \in PathsBetween(E, Holders(nc, bags, v))}]

FillingDetermined ==
    /\ pairwise_result = "returned" =>
          clique_graph_alt = FilledBags(node_count, tree, before_filling)
    /\ structure_result = "returned" =>
          /\ clique_graph = FilledBags(node_count, tree, before_filling)
          /\ Width(node_count, clique_graph)
                = Width(node_count, FilledBags(node_count, tree, before_filling))
          /\ Width(node_count, clique_graph) = Width(node_count, clique_graph_alt)
    /\ (IsTree(node_count, tree) /\ pc = "done") =>
          /\ pairwise_result = "returned"
          /\ structure_result = "returned"

\* C15: for a fixed pre-filling tree the bags fill_bags_along_paths returns are
\* the same for every order of the 2-combinations and either assignment of the
\* roles within a pair, and the bags fill_bags_along_paths_using_structure
\* returns are the same for every order of the keys and every root: both are
\* the bags determined by the pre-filling tree alone, and so is the width.
C15_OrderIndependence == FillingDetermined

\* both strategies returned with a root other than the node of maximum degree
\* and bags that were filled
C15_Witness ==
    /\ pc = "done"
    /\ structure_result = "returned"
    /\ pairwise_result = "returned"
    /\ root # MaxDegreeNode(node_count, tree)
    /\ Cardinality(Neighbors(tree, root)) = 1
    /\ clique_graph # before_filling
    /\ DOMAIN clique_graph_map = Vertices

====
